---- MODULE Spec2Model ----
(***************************************************************************)
(* Model of ludwig's configuration validation pipeline                     *)
(* (ludwig/config_validation/validations.py, ludwig/schema/__init__.py).   *)
(*                                                                         *)
(* Threads of one process call either validate_config entry point.  The    *)
(* schema and validator caches (functools.lru_cache) and the two module    *)
(* level locks are process-wide; everything else is local to a call.       *)
(***************************************************************************)
EXTENDS Naturals, Sequences, FiniteSets, TLC

(* ------------------------------ bounds --------------------------------- *)
NumThreads == 2
MaxCalls == 2
MaxSchemaCalls == 4
MaxFeatures == 2
WorldSize == 5
MaxBarriers == 2
MaxShutdowns == 2

Threads == 1..NumThreads

(* --------------------------- ludwig.constants --------------------------- *)
COMBINED == "combined"
LOSS == "loss"
MODEL_ECD == "ecd"
MODEL_GBM == "gbm"
MODEL_TYPE == "model_type"
INPUT_FEATURES == "input_features"
OUTPUT_FEATURES == "output_features"
TRAINER == "trainer"

None == "None"
NoObject == <<>>

(* The two entry points. *)
VALIDATIONS == "ludwig.config_validation.validations"
SCHEMA == "ludwig.schema"
EntryPoints == {VALIDATIONS, SCHEMA}

(* A direct caller of the public get_schema. *)
GET_SCHEMA == "ludwig.schema.get_schema"

(* ------------------------------ configs --------------------------------- *)
(* A config is a mapping; `keys` lists the sections it has, the other      *)
(* fields give their values (a fixed filler when the section is absent).   *)
ModelTypes == {MODEL_ECD, MODEL_GBM, "other"}
RaceModelTypes == {MODEL_ECD, MODEL_GBM}

FeatureNames == {"f", COMBINED}
FeatureTypes == {"category", "number"}
Features == [name : FeatureNames, type : FeatureTypes]
FeatureLists == UNION {[1..n -> Features] : n \in 1..MaxFeatures}

ValidationFields == {"f", COMBINED, "nonexistent"}
ValidationMetrics == {LOSS, "accuracy", "mean_squared_error"}
RunwayKeys == {"checkpoints_per_epoch", "steps_per_checkpoint"}
NoTrainer == [keys |-> {}, validation_field |-> None, validation_metric |-> None]
Trainers ==
    {NoTrainer}
    \cup {[keys |-> {"validation_field"}, validation_field |-> vf, validation_metric |-> None] :
            vf \in {"f"}}
    \cup {[keys |-> {"validation_field", "validation_metric"},
           validation_field |-> vf, validation_metric |-> vm] :
            vf \in ValidationFields, vm \in ValidationMetrics}
    \cup {[keys |-> {"validation_field", "validation_metric"} \cup rk,
           validation_field |-> COMBINED, validation_metric |-> LOSS] :
            rk \in (SUBSET RunwayKeys) \ {{}}}

EmptyConfig ==
    [keys |-> {}, model_type |-> None, output_features |-> <<>>, trainer |-> NoTrainer]


(* Configs of the sequential specification: every shape of the sections    *)
(* the pipeline reads.                                                     *)
TrainerSections ==
    {<<{}, NoTrainer>>} \cup {<<{TRAINER}, tr>> : tr \in Trainers}
ModelTypeSections ==
    {<<{}, None>>} \cup {<<{MODEL_TYPE}, mt>> : mt \in ModelTypes}
Configs ==
    {[keys |-> {INPUT_FEATURES, OUTPUT_FEATURES} \cup ts[1] \cup ms[1],
      model_type |-> ms[2],
      output_features |-> fs,
      trainer |-> ts[2]] :
        fs \in FeatureLists, ts \in TrainerSections, ms \in ModelTypeSections}
    \cup {[keys |-> ks, model_type |-> None, output_features |-> <<>>, trainer |-> NoTrainer] :
        ks \in SUBSET {INPUT_FEATURES}}

(* One body per model_type value a config can carry. *)
CacheConfigs ==
    {[keys |-> {MODEL_TYPE, INPUT_FEATURES, OUTPUT_FEATURES, TRAINER},
      model_type |-> mt,
      output_features |-> <<[name |-> "f", type |-> "category"]>>,
      trainer |-> [keys |-> {"validation_field", "validation_metric"},
                   validation_field |-> "f", validation_metric |-> "accuracy"]] :
        mt \in ModelTypes}

(* Configs of the concurrent specification: one body per model type. *)
RaceConfigs ==
    {[keys |-> {MODEL_TYPE, INPUT_FEATURES, OUTPUT_FEATURES, TRAINER},
      model_type |-> mt,
      output_features |-> <<[name |-> "f", type |-> "category"]>>,
      trainer |-> [keys |-> {"validation_field", "validation_metric"},
                   validation_field |-> "f", validation_metric |-> "accuracy"]] :
        mt \in RaceModelTypes}

(* ------------------------- external collaborators ----------------------- *)
(* ludwig.features.feature_registries.output_type_registry: the metric     *)
(* names registered for each output feature type.                          *)
output_type_registry ==
    [ty \in FeatureTypes |->
        IF ty = "category" THEN <<LOSS, "accuracy">> ELSE <<LOSS, "mean_squared_error">>]

(* ludwig.utils.backward_compatibility.upgrade_config_dict_to_latest_version *)
(* on a config that is already of the latest version.                      *)
upgrade_config_dict_to_latest_version(c) == c

(* ------------------------------ helpers --------------------------------- *)
In(x, seq) == \E i \in DOMAIN seq : seq[i] = x

EmptyDict == [k \in {} |-> <<>>]

(* d.setdefault(k, v): a present key keeps its value. *)
DictSetDefault(d, k, v) == [x \in (DOMAIN d) \cup {k} |-> IF x \in DOMAIN d THEN d[x] ELSE v]

(* d[k] = v of a Python dict: a present key is overwritten. *)
DictSet(d, k, v) == [x \in (DOMAIN d) \cup {k} |-> IF x = k THEN v ELSE d[x]]

(* updated_config.get(MODEL_TYPE, MODEL_ECD) *)
GetModelType(c) == IF MODEL_TYPE \in c.keys THEN c.model_type ELSE MODEL_ECD

(* ------------------- get_feature_to_metric_names_map -------------------- *)
RECURSIVE MetricsNamesLoop(_, _, _)
MetricsNamesLoop(output_features, i, metrics_names) ==
    IF i > Len(output_features)
    THEN metrics_names
    ELSE MetricsNamesLoop(output_features, i + 1,
            DictSet(metrics_names, output_features[i].name,
                    output_type_registry[output_features[i].type]))

(* The combined entry written before the loop over the output features. *)
CombinedEntryFirst(output_features) ==
    MetricsNamesLoop(output_features, 1, DictSet(EmptyDict, COMBINED, <<LOSS>>))

get_feature_to_metric_names_map(output_features) ==
    DictSet(MetricsNamesLoop(output_features, 1, EmptyDict), COMBINED, <<LOSS>>)

(* ------------------ check_validation_metrics_are_valid ------------------ *)
(* The outcome of the call: "ok" when it returns, else the exception type. *)
check_validation_metrics_are_valid(c) ==
    IF OUTPUT_FEATURES \notin c.keys THEN "KeyError"
    ELSE LET feature_to_metric_names_map == get_feature_to_metric_names_map(c.output_features)
         IN  IF TRAINER \notin c.keys THEN "KeyError"
             ELSE IF "validation_field" \notin c.trainer.keys THEN "KeyError"
             ELSE IF "validation_metric" \notin c.trainer.keys THEN "KeyError"
             ELSE IF c.trainer.validation_field \notin DOMAIN feature_to_metric_names_map
                  THEN "ValueError"
             ELSE IF ~In(c.trainer.validation_metric,
                         feature_to_metric_names_map[c.trainer.validation_field])
                  THEN "ValueError"
             ELSE "ok"

(* The semantic checks validate_config calls after the metrics check, in   *)
(* call order.                                                             *)
CHECK_METRICS == "check_validation_metrics_are_valid"
REMAINING_CHECKS ==
    << "check_feature_names_unique",
       "check_tied_features_are_valid",
       "check_dependent_features",
       "check_training_runway",
       "check_gbm_horovod_incompatibility",
       "check_gbm_feature_types",
       "check_ray_backend_in_memory_preprocessing",
       "check_sequence_concat_combiner_requirements",
       "check_tabtransformer_combiner_requirements",
       "check_comparator_combiner_requirements",
       "check_class_balance_preprocessing",
       "check_sampling_exclusivity",
       "check_hyperopt_search_space",
       "check_hyperopt_metric_targets",
       "check_gbm_single_output_feature" >>

(* Every one of the remaining checks has the body `pass` (or only a        *)
(* docstring): it returns normally on every config.                        *)
RunSemanticCheck(name, c) == "ok"

(* ---------------------------- structural -------------------------------- *)
(* jsonschema.validate against get_schema(): "required" is INPUT_FEATURES  *)
(* and OUTPUT_FEATURES; the section fragments come from other modules, so  *)
(* their verdict is an input (fragments_ok).                               *)
SchemaRequired == {INPUT_FEATURES, OUTPUT_FEATURES}
validate(c, fragments_ok) ==
    IF SchemaRequired \subseteq c.keys /\ fragments_ok THEN "ok" ELSE "ValidationError"

(* ------------------------ functools.lru_cache --------------------------- *)
(* A cache is the sequence of its entries, least recently used first.      *)
MAXSIZE == 2
VALIDATOR_KEY == "()"

CacheKeys(cache) == {cache[i].key : i \in DOMAIN cache}
CacheIndex(cache, k) == CHOOSE i \in DOMAIN cache : cache[i].key = k
CacheValue(cache, k) == cache[CacheIndex(cache, k)].value
Without(cache, i) == [j \in 1..(Len(cache) - 1) |-> IF j < i THEN cache[j] ELSE cache[j + 1]]

(* A lookup that leaves the order of the entries alone (first in, first out). *)
CacheHitNoMove(cache, k) == cache

(* A hit moves the entry to the most recently used end. *)
CacheHit(cache, k) == Append(Without(cache, CacheIndex(cache, k)), cache[CacheIndex(cache, k)])

(* A wrapper that never stores what the wrapped function returned. *)
CacheStoreNothing(cache, k, v) == cache

(* The keys in the order of their last use, least recently used first. *)
Touch(order, k) == Append(SelectSeq(order, LAMBDA x : x # k), k)

(* After the wrapped function returned: a key stored meanwhile by another  *)
(* caller is left alone; a full cache drops its least recently used entry. *)
CacheStore(cache, k, v) ==
    IF k \in CacheKeys(cache) THEN cache
    ELSE IF Len(cache) >= MAXSIZE THEN Append(Tail(cache), [key |-> k, value |-> v])
    ELSE Append(cache, [key |-> k, value |-> v])

(* ------------------------------- state ---------------------------------- *)
VARIABLES
    pc,                 \* where each thread is in its validate_config call
    calls,              \* validate_config calls made so far
    entry,              \* the module whose validate_config the thread called
    include_auxiliary_validations,
    config,             \* the config the caller passed
    updated_config,     \* local of validate_config
    model_type,         \* local of validate_config
    schema,             \* the object get_schema returned to the thread
    validator,          \* the object get_validator returned to the thread
    log,                \* the steps the call has run, with their outcomes
    err,                \* the exception that ended the call, or None
    VALIDATION_LOCK,    \* holder of each module's VALIDATION_LOCK, 0 when free
    schema_cache,       \* lru_cache of get_schema
    validator_cache,    \* lru_cache of get_validator
    schema_builds,      \* times the body of get_schema ran, per model type
    validator_builds,   \* times the body of get_validator ran
    recency             \* the get_schema keys in the order of their last use

locals == <<entry, include_auxiliary_validations, config, updated_config, model_type,
            schema, validator, log, err>>
caches == <<schema_cache, validator_cache, schema_builds, validator_builds, recency>>

(* ---------------------- ludwig.distributed.ddp ------------------------- *)
(* dist.get_rank() of the workers of the group, and their host names. *)
Workers == 0..(WorldSize - 1)
Hosts == {"H1", "H2"}
HostAssignments == [Workers -> Hosts]
(* Even ranks on H1, odd ranks on H2. *)
AlternateHosts == [w \in Workers |-> IF w % 2 = 0 THEN "H1" ELSE "H2"]

(* for other_rank, other_host in output: ... of local_rank_and_size, from  *)
(* entry i of output on; the result is <<local_rank, local_size>>.         *)
RECURSIVE CountLoop(_, _, _, _, _, _)
CountLoop(output_, i, rank, host_, local_rank, local_size) ==
    IF i > Len(output_) THEN <<local_rank, local_size>>
    ELSE LET other_rank == output_[i][1]
             other_host == output_[i][2]
         IN  IF other_host = host_
             THEN CountLoop(output_, i + 1, rank, host_,
                            IF other_rank < rank THEN local_rank + 1 ELSE local_rank,
                            local_size + 1)
             ELSE CountLoop(output_, i + 1, rank, host_, local_rank, local_size)

(* The counting with the host of the other worker not looked at. *)
CountAnyHost(rank, host_, output_) ==
    <<Cardinality({i \in 1..Len(output_) : output_[i][1] < rank}), Len(output_)>>

(* The counting with the worker itself taken as one of the lower ranks. *)
CountNotAbove(rank, host_, output_) ==
    <<Cardinality({i \in 1..Len(output_) : output_[i][2] = host_ /\ output_[i][1] <= rank}),
      Cardinality({i \in 1..Len(output_) : output_[i][2] = host_})>>

(* local_size = 0; local_rank = 0; the loop; return local_rank, local_size *)
CountLocal(rank, host_, output_) == CountLoop(output_, 1, rank, host_, 0, 0)

(* One DDPStrategy per worker process of the torch.distributed group. *)
VARIABLES
    host,               \* socket.gethostname() of each worker
    wpc,                \* where each worker is
    all_gather,         \* the (rank, host) pairs given to all_gather_object so far
    output,             \* local of local_rank_and_size, per worker
    _local_rank,        \* DDPStrategy._local_rank of the workers that have a strategy
    _local_size,        \* DDPStrategy._local_size of the workers that have a strategy
    barrier_calls,      \* barrier() calls each worker has made
    shutdown_calls,     \* shutdown() calls made by all workers
    process_group       \* the torch.distributed default process group

group == <<host, wpc, all_gather, output, _local_rank, _local_size, barrier_calls,
           shutdown_calls, process_group>>
threads == <<pc, calls, locals, VALIDATION_LOCK, caches>>
vars == <<pc, calls, locals, VALIDATION_LOCK, caches, group>>

(* No worker has built its DDPStrategy; H is the set of host assignments. *)
InitGroup(H) ==
    /\ host \in H
    /\ wpc = [w \in Workers |-> "start"]
    /\ all_gather = {}
    /\ output = [w \in Workers |-> <<>>]
    /\ _local_rank = <<>>
    /\ _local_size = <<>>
    /\ barrier_calls = [w \in Workers |-> 0]
    /\ shutdown_calls = 0
    /\ process_group = "initialized"

InitThreads ==
    /\ pc = [t \in Threads |-> "idle"]
    /\ calls = 0
    /\ entry = [t \in Threads |-> None]
    /\ include_auxiliary_validations = [t \in Threads |-> TRUE]
    /\ config = [t \in Threads |-> EmptyConfig]
    /\ updated_config = [t \in Threads |-> EmptyConfig]
    /\ model_type = [t \in Threads |-> None]
    /\ schema = [t \in Threads |-> NoObject]
    /\ validator = [t \in Threads |-> NoObject]
    /\ log = [t \in Threads |-> <<>>]
    /\ err = [t \in Threads |-> None]
    /\ VALIDATION_LOCK = [m \in EntryPoints |-> 0]
    /\ schema_cache = <<>>
    /\ validator_cache = <<>>
    /\ schema_builds = [mt \in ModelTypes |-> 0]
    /\ validator_builds = 0
    /\ recency = <<>>

Init == InitThreads /\ InitGroup({AlternateHosts})

(* --------------------------- control flow ------------------------------- *)
Logged(t, step, result) == log' = [log EXCEPT ![t] = Append(@, [step |-> step, result |-> result])]

(* An exception is not caught anywhere in validate_config. *)
Raise(t, kind) ==
    /\ err' = [err EXCEPT ![t] = kind]
    /\ pc' = [pc EXCEPT ![t] = "done"]

(* validations.validate_config locks right after the upgrade; the          *)
(* deprecated schema.validate_config runs the splitter first.              *)
AfterUpgrade(e) == IF e = VALIDATIONS THEN "acquire" ELSE "splitter"
AfterSplitter(e) == IF e = VALIDATIONS THEN "metrics" ELSE "acquire"

(* The flag guarding the splitter alone. *)
AfterStructuralSplitterOnly(e, aux) ==
    IF e = VALIDATIONS THEN (IF aux THEN "splitter" ELSE "metrics") ELSE "done"

(* get_schema returns to validate(...)'s argument list, or to its caller. *)
AfterGetSchema(e) == IF e = GET_SCHEMA THEN "done" ELSE "get_validator"

(* `if include_auxiliary_validations:` holds the splitter and every check. *)
AfterStructural(e, aux) == IF e = VALIDATIONS /\ aux THEN "splitter" ELSE "done"

(* acquire() and release() without try/finally: a raise keeps the lock. *)
LockKeptOnRaise(holder, result) == IF result = "ok" THEN 0 ELSE holder

(* `with VALIDATION_LOCK:` releases on leaving the block, also by raising. *)
LockOnExit(holder, result) == 0

(* ------------------------------ actions --------------------------------- *)
Call(t, E, C, A) ==
    /\ pc[t] = "idle"
    /\ calls < MaxCalls
    /\ \E e \in E, c \in C, aux \in A :
        /\ e = SCHEMA => aux
        /\ entry' = [entry EXCEPT ![t] = e]
        /\ config' = [config EXCEPT ![t] = c]
        /\ include_auxiliary_validations' = [include_auxiliary_validations EXCEPT ![t] = aux]
    /\ calls' = calls + 1
    /\ pc' = [pc EXCEPT ![t] = "upgrade"]
    /\ UNCHANGED <<group, updated_config, model_type, schema, validator, log, err,
                   VALIDATION_LOCK, caches>>

(* get_schema(model_type) called directly; MODEL_ECD is the default. *)
CallGetSchema(t) ==
    /\ pc[t] = "idle"
    /\ calls < MaxSchemaCalls
    /\ \E mt \in ModelTypes : model_type' = [model_type EXCEPT ![t] = mt]
    /\ entry' = [entry EXCEPT ![t] = GET_SCHEMA]
    /\ calls' = calls + 1
    /\ pc' = [pc EXCEPT ![t] = "get_schema"]
    /\ UNCHANGED <<group, include_auxiliary_validations, config, updated_config, schema, validator,
                   log, err, VALIDATION_LOCK, caches>>

(* updated_config = upgrade_config_dict_to_latest_version(config);         *)
(* model_type = updated_config.get(MODEL_TYPE, MODEL_ECD)                  *)
Upgrade(t) ==
    /\ pc[t] = "upgrade"
    /\ \E upgraded \in BOOLEAN :
        IF upgraded
        THEN /\ updated_config' = [updated_config EXCEPT ![t] =
                                      upgrade_config_dict_to_latest_version(config[t])]
             /\ model_type' = [model_type EXCEPT ![t] =
                                  GetModelType(upgrade_config_dict_to_latest_version(config[t]))]
             /\ Logged(t, "upgrade", "ok")
             /\ pc' = [pc EXCEPT ![t] = AfterUpgrade(entry[t])]
             /\ UNCHANGED err
        ELSE /\ Logged(t, "upgrade", "UpgradeError")
             /\ Raise(t, "UpgradeError")
             /\ UNCHANGED <<updated_config, model_type>>
    /\ UNCHANGED <<group, calls, entry, include_auxiliary_validations, config, schema, validator,
                   VALIDATION_LOCK, caches>>

(* Entering the block without waiting for the lock. *)
AcquireLockNoWait(t) ==
    /\ pc[t] = "acquire"
    /\ VALIDATION_LOCK' = [VALIDATION_LOCK EXCEPT ![entry[t]] = t]
    /\ pc' = [pc EXCEPT ![t] = "get_schema"]
    /\ UNCHANGED <<group, calls, locals, caches>>

(* with VALIDATION_LOCK: blocks while the module's lock is held. *)
AcquireLock(t) ==
    /\ pc[t] = "acquire"
    /\ VALIDATION_LOCK[entry[t]] = 0
    /\ VALIDATION_LOCK' = [VALIDATION_LOCK EXCEPT ![entry[t]] = t]
    /\ pc' = [pc EXCEPT ![t] = "get_schema"]
    /\ UNCHANGED <<group, calls, locals, caches>>

(* get_schema(model_type=model_type): the cache lookup. *)
GetSchema(t) ==
    /\ pc[t] = "get_schema"
    /\ IF model_type[t] \in CacheKeys(schema_cache)
       THEN /\ schema' = [schema EXCEPT ![t] = CacheValue(schema_cache, model_type[t])]
            /\ schema_cache' = CacheHit(schema_cache, model_type[t])
            /\ recency' = Touch(recency, model_type[t])
            /\ pc' = [pc EXCEPT ![t] = AfterGetSchema(entry[t])]
       ELSE /\ pc' = [pc EXCEPT ![t] = "build_schema"]
            /\ UNCHANGED <<schema, schema_cache, recency>>
    /\ UNCHANGED <<group, calls, entry, include_auxiliary_validations, config, updated_config,
                   model_type, validator, log, err, VALIDATION_LOCK, validator_cache,
                   schema_builds, validator_builds>>

(* get_schema on a miss: the body builds a new schema, which is stored. *)
BuildSchema(t) ==
    /\ pc[t] = "build_schema"
    /\ LET built == <<model_type[t], schema_builds[model_type[t]] + 1>>
       IN  /\ schema' = [schema EXCEPT ![t] = built]
           /\ schema_cache' = CacheStore(schema_cache, model_type[t], built)
    /\ schema_builds' = [schema_builds EXCEPT ![model_type[t]] = @ + 1]
    /\ recency' = Touch(recency, model_type[t])
    /\ pc' = [pc EXCEPT ![t] = AfterGetSchema(entry[t])]
    /\ UNCHANGED <<group, calls, entry, include_auxiliary_validations, config, updated_config,
                   model_type, validator, log, err, VALIDATION_LOCK, validator_cache,
                   validator_builds>>

(* get_validator(): the cache lookup. *)
GetValidator(t) ==
    /\ pc[t] = "get_validator"
    /\ IF VALIDATOR_KEY \in CacheKeys(validator_cache)
       THEN /\ validator' = [validator EXCEPT ![t] = CacheValue(validator_cache, VALIDATOR_KEY)]
            /\ validator_cache' = CacheHit(validator_cache, VALIDATOR_KEY)
            /\ pc' = [pc EXCEPT ![t] = "validate"]
       ELSE /\ pc' = [pc EXCEPT ![t] = "build_validator"]
            /\ UNCHANGED <<validator, validator_cache>>
    /\ UNCHANGED <<group, calls, entry, include_auxiliary_validations, config, updated_config,
                   model_type, schema, log, err, VALIDATION_LOCK, schema_cache,
                   schema_builds, validator_builds, recency>>

(* get_validator on a miss: extend(Draft7Validator, ...) makes a new class. *)
BuildValidator(t) ==
    /\ pc[t] = "build_validator"
    /\ LET built == <<"validator", validator_builds + 1>>
       IN  /\ validator' = [validator EXCEPT ![t] = built]
           /\ validator_cache' = CacheStore(validator_cache, VALIDATOR_KEY, built)
    /\ validator_builds' = validator_builds + 1
    /\ pc' = [pc EXCEPT ![t] = "validate"]
    /\ UNCHANGED <<group, calls, entry, include_auxiliary_validations, config, updated_config,
                   model_type, schema, log, err, VALIDATION_LOCK, schema_cache,
                   schema_builds, recency>>

(* validate(instance=updated_config, schema=..., cls=...) and the end of   *)
(* the with block.                                                         *)
Validate(t) ==
    /\ pc[t] = "validate"
    /\ \E fragments_ok \in BOOLEAN :
        LET result == validate(updated_config[t], fragments_ok)
        IN  /\ Logged(t, "structural", result)
            /\ VALIDATION_LOCK' = [VALIDATION_LOCK EXCEPT ![entry[t]] = LockOnExit(@, result)]
            /\ IF result = "ok"
               THEN /\ pc' = [pc EXCEPT ![t] =
                                AfterStructural(entry[t], include_auxiliary_validations[t])]
                    /\ UNCHANGED err
               ELSE Raise(t, result)
    /\ UNCHANGED <<group, calls, entry, include_auxiliary_validations, config, updated_config,
                   model_type, schema, validator, caches>>

(* splitter = get_splitter(...); splitter.validate(updated_config) *)
Splitter(t) ==
    /\ pc[t] = "splitter"
    /\ \E split_ok \in BOOLEAN :
        IF split_ok
        THEN /\ Logged(t, "splitter", "ok")
             /\ pc' = [pc EXCEPT ![t] = AfterSplitter(entry[t])]
             /\ UNCHANGED err
        ELSE /\ Logged(t, "splitter", "SplitterError")
             /\ Raise(t, "SplitterError")
    /\ UNCHANGED <<group, calls, entry, include_auxiliary_validations, config, updated_config,
                   model_type, schema, validator, VALIDATION_LOCK, caches>>

(* The metrics check with its exception caught and the battery continued. *)
CheckValidationMetricsContinue(t) ==
    /\ pc[t] = "metrics"
    /\ Logged(t, CHECK_METRICS, check_validation_metrics_are_valid(updated_config[t]))
    /\ pc' = [pc EXCEPT ![t] = "checks"]
    /\ UNCHANGED <<group, calls, entry, include_auxiliary_validations, config, updated_config,
                   model_type, schema, validator, err, VALIDATION_LOCK, caches>>

(* check_validation_metrics_are_valid(updated_config) *)
CheckValidationMetrics(t) ==
    /\ pc[t] = "metrics"
    /\ LET result == check_validation_metrics_are_valid(updated_config[t])
       IN  /\ Logged(t, CHECK_METRICS, result)
           /\ IF result = "ok"
              THEN /\ pc' = [pc EXCEPT ![t] = "checks"]
                   /\ UNCHANGED err
              ELSE Raise(t, result)
    /\ UNCHANGED <<group, calls, entry, include_auxiliary_validations, config, updated_config,
                   model_type, schema, validator, VALIDATION_LOCK, caches>>

(* check_feature_names_unique(updated_config) ..                           *)
(* check_gbm_single_output_feature(updated_config): each call is made only *)
(* when the one before it returned.  The result is the log of the calls.   *)
RECURSIVE RunChecks(_, _, _)
RunChecks(names, c, done) ==
    IF names = <<>> THEN done
    ELSE LET result == RunSemanticCheck(Head(names), c)
             logged == Append(done, [step |-> Head(names), result |-> result])
         IN  IF result = "ok" THEN RunChecks(Tail(names), c, logged) ELSE logged

LastResult(l) == l[Len(l)].result

RemainingChecks(t) ==
    /\ pc[t] = "checks"
    /\ LET ran == RunChecks(REMAINING_CHECKS, updated_config[t], <<>>)
       IN  /\ log' = [log EXCEPT ![t] = @ \o ran]
           /\ err' = [err EXCEPT ![t] = IF LastResult(ran) = "ok" THEN None ELSE LastResult(ran)]
    /\ pc' = [pc EXCEPT ![t] = "done"]
    /\ UNCHANGED <<group, calls, entry, include_auxiliary_validations, config, updated_config,
                   model_type, schema, validator, VALIDATION_LOCK, caches>>

(* The call returns or raises to its caller: its locals are gone. *)
Return(t) ==
    /\ pc[t] = "done"
    /\ pc' = [pc EXCEPT ![t] = "idle"]
    /\ entry' = [entry EXCEPT ![t] = None]
    /\ include_auxiliary_validations' = [include_auxiliary_validations EXCEPT ![t] = TRUE]
    /\ config' = [config EXCEPT ![t] = EmptyConfig]
    /\ updated_config' = [updated_config EXCEPT ![t] = EmptyConfig]
    /\ model_type' = [model_type EXCEPT ![t] = None]
    /\ schema' = [schema EXCEPT ![t] = NoObject]
    /\ validator' = [validator EXCEPT ![t] = NoObject]
    /\ log' = [log EXCEPT ![t] = <<>>]
    /\ err' = [err EXCEPT ![t] = None]
    /\ UNCHANGED <<group, calls, VALIDATION_LOCK, caches>>

Step(t) ==
    \/ Upgrade(t)
    \/ AcquireLock(t)
    \/ GetSchema(t)
    \/ BuildSchema(t)
    \/ GetValidator(t)
    \/ BuildValidator(t)
    \/ Validate(t)
    \/ Splitter(t)
    \/ CheckValidationMetrics(t)
    \/ RemainingChecks(t)
    \/ Return(t)

(* Threads of one process calling either entry point at any time. *)
Next == \E t \in Threads : Call(t, EntryPoints, RaceConfigs, {TRUE}) \/ Step(t)
Spec == Init /\ [][Next]_vars

(* The same under fair scheduling: a thread that can take a step takes one  *)
(* (no step of a call waits except the lock acquisition), and a thread     *)
(* waiting for a lock that is freed again and again gets it.               *)
Fairness ==
    \A t \in Threads : WF_vars(Step(t)) /\ SF_vars(AcquireLock(t))
NextFair ==
    \E t \in Threads :
        Call(t, EntryPoints, {c \in RaceConfigs : c.model_type = MODEL_ECD}, {TRUE}) \/ Step(t)
SpecFair == Init /\ [][NextFair]_vars /\ Fairness

(* Threads calling validations.validate_config only. *)
NextValidations == \E t \in Threads : Call(t, {VALIDATIONS}, RaceConfigs, BOOLEAN) \/ Step(t)
SpecValidations == Init /\ [][NextValidations]_vars

(* One caller, every config shape. *)
NextSeq == Call(1, EntryPoints, Configs, BOOLEAN) \/ Step(1)
SpecSeq == Init /\ [][NextSeq]_vars

(* One caller of get_schema and of validate_config, every model_type. *)
NextCache == CallGetSchema(1) \/ Call(1, EntryPoints, CacheConfigs, BOOLEAN) \/ Step(1)
SpecCache == Init /\ [][NextCache]_vars

(* ======================== properties of the pipeline ==================== *)
(* The span of a call from the schema-cache lookup to the end of           *)
(* structural validation.                                                  *)
LockedSpan == {"get_schema", "build_schema", "get_validator", "build_validator", "validate"}
InSpan(t) == pc[t] \in LockedSpan

StepOf(t, i) == log[t][i].step
Ran(t, step) == \E i \in DOMAIN log[t] : log[t][i].step = step
Passed(t, step) == \E i \in DOMAIN log[t] : log[t][i].step = step /\ log[t][i].result = "ok"
Failed(t, step) == \E i \in DOMAIN log[t] : log[t][i].step = step /\ log[t][i].result # "ok"
SemanticSteps == {CHECK_METRICS} \cup {REMAINING_CHECKS[i] : i \in DOMAIN REMAINING_CHECKS}

(* C1: among the threads calling validations.validate_config, at most one  *)
(* at a time is inside the span from get_schema to the end of structural   *)
(* validation.                                                             *)
C1_OneThreadInSpan ==
    \A t1, t2 \in Threads :
        (t1 # t2 /\ entry[t1] = VALIDATIONS /\ entry[t2] = VALIDATIONS /\ InSpan(t1))
            => ~InSpan(t2)

C1_Witness ==
    \E t1, t2 \in Threads :
        /\ t1 # t2
        /\ entry[t1] = VALIDATIONS /\ entry[t2] = VALIDATIONS
        /\ pc[t1] = "validate"
        /\ pc[t2] = "acquire"

(* C2: whichever validate_config entry point the threads call, no two      *)
(* threads are at the same time inside get_schema / get_validator /        *)
(* structural validation.                                                  *)
C2_OneThreadInSpanAnyEntry ==
    \A t1, t2 \in Threads : (t1 # t2 /\ InSpan(t1)) => ~InSpan(t2)

(* C3: when threads call validations.validate_config at the same time from *)
(* empty caches, the schema of a model type and the validator are each     *)
(* built once, and all threads validate against those same objects.        *)
HasObjects(t) == schema[t] # NoObject /\ validator[t] # NoObject
C3_BuiltOnceAndShared ==
    /\ \A mt \in ModelTypes : schema_builds[mt] <= 1
    /\ validator_builds <= 1
    /\ \A t \in Threads :
        /\ pc[t] \in {"get_validator", "build_validator", "validate"}
            => schema[t] = <<model_type[t], 1>> /\ schema_builds[model_type[t]] = 1
        /\ pc[t] = "validate" => validator[t] = <<"validator", 1>> /\ validator_builds = 1
    /\ \A t1, t2 \in Threads :
        (HasObjects(t1) /\ HasObjects(t2) /\ model_type[t1] = model_type[t2])
            => schema[t1] = schema[t2] /\ validator[t1] = validator[t2]

C3_Witness ==
    \E t1, t2 \in Threads :
        /\ t1 # t2
        /\ model_type[t1] = model_type[t2]
        /\ Ran(t1, "structural")
        /\ pc[t2] = "validate"
        /\ HasObjects(t1) /\ schema[t1] = schema[t2] /\ validator[t1] = validator[t2]
        /\ schema_builds[model_type[t1]] = 1 /\ validator_builds = 1

(* C4: a thread holds no validation lock once its structural validation    *)
(* has completed (passed or raised), nor while it runs the splitter or a   *)
(* semantic check, nor after its call has returned or raised.              *)
HoldsLock(t) == \E m \in EntryPoints : VALIDATION_LOCK[m] = t
C4_LockReleasedAfterStructural ==
    \A t \in Threads :
        (\/ pc[t] \in {"idle", "upgrade", "acquire", "splitter", "metrics", "checks", "done"}
         \/ Ran(t, "structural"))
            => ~HoldsLock(t)

C4_Witness ==
    \E t1, t2 \in Threads :
        /\ t1 # t2
        /\ pc[t1] = "done" /\ err[t1] = "ValidationError"
        /\ entry[t2] = entry[t1] /\ pc[t2] = "get_schema"

(* C5: validations.validate_config runs its steps in the fixed order, a    *)
(* step only after every earlier step of the call returned normally, and   *)
(* the first step that raises ends the call with that error.               *)
StepOrder == <<"upgrade", "structural", "splitter", CHECK_METRICS>> \o REMAINING_CHECKS
C5_FailFast ==
    \A t \in Threads :
        entry[t] = VALIDATIONS =>
            /\ Len(log[t]) <= Len(StepOrder)
            /\ \A i \in DOMAIN log[t] : StepOf(t, i) = StepOrder[i]
            /\ \A i \in DOMAIN log[t] : i < Len(log[t]) => log[t][i].result = "ok"
            /\ (log[t] # <<>> /\ LastResult(log[t]) # "ok")
                => pc[t] = "done" /\ err[t] = LastResult(log[t])
            /\ err[t] # None => log[t] # <<>> /\ LastResult(log[t]) = err[t]

C5_Witness ==
    \E t \in Threads :
        /\ entry[t] = VALIDATIONS
        /\ pc[t] = "done"
        /\ err[t] = "ValueError"
        /\ Len(log[t]) = 4 /\ StepOf(t, 4) = CHECK_METRICS

(* C6 as claimed: with include_auxiliary_validations=False on a            *)
(* structurally valid config the splitter is skipped, but                  *)
(* check_validation_metrics_are_valid and the later checks are still run.  *)
C6_FlagGatesOnlySplitter ==
    \A t \in Threads :
        (/\ entry[t] = VALIDATIONS
         /\ ~include_auxiliary_validations[t]
         /\ pc[t] = "done"
         /\ Passed(t, "structural"))
            => ~Ran(t, "splitter") /\ Ran(t, CHECK_METRICS)

(* C6 as amended: the flag gates the splitter and every semantic check:    *)
(* with False the call runs the upgrade and structural validation only and *)
(* returns once the structure is valid; with True a call that returns has  *)
(* run the splitter and then every check in the fixed order.               *)
C6_FlagGatesSplitterAndChecks ==
    \A t \in Threads :
        entry[t] = VALIDATIONS =>
            /\ ~include_auxiliary_validations[t]
                => \A i \in DOMAIN log[t] : StepOf(t, i) \in {"upgrade", "structural"}
            /\ (~include_auxiliary_validations[t] /\ Passed(t, "structural"))
                => pc[t] = "done" /\ err[t] = None
            /\ (include_auxiliary_validations[t] /\ pc[t] = "done" /\ err[t] = None)
                => [i \in DOMAIN log[t] |-> StepOf(t, i)] = StepOrder

C6_Witness ==
    \E t \in Threads :
        /\ entry[t] = VALIDATIONS
        /\ ~include_auxiliary_validations[t]
        /\ pc[t] = "done" /\ err[t] = None
        /\ Len(log[t]) = 2 /\ Passed(t, "structural")

(* ------------------------ DDPStrategy, per worker ----------------------- *)
HasStrategy(w) == w \in DOMAIN _local_rank

SetAttr(attrs, w, value) ==
    [v \in DOMAIN attrs \cup {w} |-> IF v = w THEN value ELSE attrs[v]]

(* dist.all_gather_object(output, (rank, host)): the worker gives its pair *)
(* and waits for the pairs of the others.                                  *)
AllGatherObject(w) ==
    /\ wpc[w] = "start"
    /\ all_gather' = all_gather \cup {<<w, host[w]>>}
    /\ wpc' = [wpc EXCEPT ![w] = "all_gather"]
    /\ UNCHANGED <<threads, host, output, _local_rank, _local_size, barrier_calls,
                   shutdown_calls, process_group>>

(* What all_gather_object leaves in output: the pair of every worker, in   *)
(* the order of the ranks.                                                 *)
AllGathered == {p[1] : p \in all_gather} = Workers
Gathered == [i \in 1..WorldSize |-> CHOOSE p \in all_gather : p[1] = i - 1]

(* self._local_rank, self._local_size = local_rank_and_size(), from the    *)
(* return of all_gather_object on.                                         *)
LocalRankAndSize(w) ==
    /\ wpc[w] = "all_gather"
    /\ AllGathered
    /\ LET counted == CountLocal(w, host[w], Gathered)
       IN  /\ output' = [output EXCEPT ![w] = Gathered]
           /\ _local_rank' = SetAttr(_local_rank, w, counted[1])
           /\ _local_size' = SetAttr(_local_size, w, counted[2])
    /\ wpc' = [wpc EXCEPT ![w] = "ready"]
    /\ UNCHANGED <<threads, host, all_gather, barrier_calls, shutdown_calls, process_group>>

(* barrier(): dist.barrier() is entered. *)
Barrier(w) ==
    /\ wpc[w] = "ready"
    /\ barrier_calls[w] < MaxBarriers
    /\ barrier_calls' = [barrier_calls EXCEPT ![w] = @ + 1]
    /\ wpc' = [wpc EXCEPT ![w] = "barrier"]
    /\ UNCHANGED <<threads, host, all_gather, output, _local_rank, _local_size,
                   shutdown_calls, process_group>>

(* torch.distributed.barrier: the call of worker w is over once every      *)
(* worker of the group has made that call; it has no timeout.              *)
AllArrived(w) == \A v \in Workers : barrier_calls[v] >= barrier_calls[w]

(* dist.barrier() returning as soon as it is called. *)
BarrierReturnAlone(w) ==
    /\ wpc[w] = "barrier"
    /\ wpc' = [wpc EXCEPT ![w] = "ready"]
    /\ UNCHANGED <<threads, host, all_gather, output, _local_rank, _local_size,
                   barrier_calls, shutdown_calls, process_group>>

(* return dist.barrier(): every worker has made the call. *)
BarrierReturn(w) ==
    /\ wpc[w] = "barrier"
    /\ AllArrived(w)
    /\ wpc' = [wpc EXCEPT ![w] = "ready"]
    /\ UNCHANGED <<threads, host, all_gather, output, _local_rank, _local_size,
                   barrier_calls, shutdown_calls, process_group>>

(* A worker raises an exception in its own code, outside a collective. *)
Fail(w) ==
    /\ wpc[w] \in {"start", "ready"}
    /\ wpc' = [wpc EXCEPT ![w] = "failed"]
    /\ UNCHANGED <<threads, host, all_gather, output, _local_rank, _local_size,
                   barrier_calls, shutdown_calls, process_group>>

(* shutdown() with dist.destroy_process_group() called. *)
ShutdownDestroy(w) ==
    /\ HasStrategy(w)
    /\ wpc[w] \in {"ready", "failed"}
    /\ shutdown_calls < MaxShutdowns
    /\ shutdown_calls' = shutdown_calls + 1
    /\ process_group' = "destroyed"
    /\ UNCHANGED <<threads, host, wpc, all_gather, output, _local_rank, _local_size,
                   barrier_calls>>

(* shutdown(): pass.  The caller is a worker that is not inside a          *)
(* collective call.                                                        *)
Shutdown(w) ==
    /\ HasStrategy(w)
    /\ wpc[w] \in {"ready", "failed"}
    /\ shutdown_calls < MaxShutdowns
    /\ shutdown_calls' = shutdown_calls + 1
    /\ UNCHANGED <<threads, host, wpc, all_gather, output, _local_rank, _local_size,
                   barrier_calls, process_group>>

(* The workers of one group, on any hosts, building their strategies. *)
InitRank == InitThreads /\ InitGroup(HostAssignments)
NextRank == \E w \in Workers : AllGatherObject(w) \/ LocalRankAndSize(w)
SpecRank == InitRank /\ [][NextRank]_vars

(* The workers of one group at work. *)
NextDDP ==
    \E w \in Workers :
        \/ AllGatherObject(w)
        \/ LocalRankAndSize(w)
        \/ Barrier(w)
        \/ BarrierReturn(w)
        \/ Fail(w)
        \/ Shutdown(w)
SpecDDP == Init /\ [][NextDDP]_vars

(* ---------------- what the metrics check is said to accept -------------- *)
HasValidationKeys(c) ==
    /\ TRAINER \in c.keys
    /\ {"validation_field", "validation_metric"} \subseteq c.trainer.keys

NamesFeature(c, n) == \E i \in DOMAIN c.output_features : c.output_features[i].name = n

LastNamed(c, n) ==
    CHOOSE i \in DOMAIN c.output_features :
        /\ c.output_features[i].name = n
        /\ \A j \in DOMAIN c.output_features : j > i => c.output_features[j].name # n

(* Some output feature of that name registers the metric. *)
ClaimedValidMetrics(c) ==
    /\ HasValidationKeys(c)
    /\ IF c.trainer.validation_field = COMBINED
       THEN c.trainer.validation_metric = LOSS
       ELSE \E i \in DOMAIN c.output_features :
                /\ c.output_features[i].name = c.trainer.validation_field
                /\ In(c.trainer.validation_metric,
                      output_type_registry[c.output_features[i].type])

(* The last output feature of that name registers the metric. *)
AmendedValidMetrics(c) ==
    /\ HasValidationKeys(c)
    /\ IF c.trainer.validation_field = COMBINED
       THEN c.trainer.validation_metric = LOSS
       ELSE /\ NamesFeature(c, c.trainer.validation_field)
            /\ In(c.trainer.validation_metric,
                  output_type_registry[
                      c.output_features[LastNamed(c, c.trainer.validation_field)].type])

(* C7 as claimed: check_validation_metrics_are_valid returns normally iff  *)
(* validation_field names an output feature or the combined objective and  *)
(* validation_metric is registered for that feature's type (the loss when  *)
(* the field is the combined objective).                                   *)
C7_MetricsCheckIff ==
    \A t \in Threads :
        Ran(t, CHECK_METRICS) =>
            (Passed(t, CHECK_METRICS) <=> ClaimedValidMetrics(updated_config[t]))

(* C7 as amended: among output features of one name, the type of the last  *)
(* one in the list decides which metrics are accepted.                     *)
C7_MetricsCheckIffLastNamed ==
    \A t \in Threads :
        Ran(t, CHECK_METRICS) =>
            (Passed(t, CHECK_METRICS) <=> AmendedValidMetrics(updated_config[t]))

C7_Witness ==
    \E t \in Threads :
        /\ Passed(t, CHECK_METRICS)
        /\ Len(updated_config[t].output_features) = 2
        /\ updated_config[t].output_features[1].name = updated_config[t].output_features[2].name
        /\ updated_config[t].output_features[1].type # updated_config[t].output_features[2].type
        /\ updated_config[t].trainer.validation_field = "f"
        /\ updated_config[t].trainer.validation_metric # LOSS

(* C8: every rejection by a semantic check leaves validate_config as a     *)
(* ConfigValidationError (ValueError, the type the checks raise for a      *)
(* violation they detect, is read as that kind).                           *)
C8_SemanticFailureKind ==
    \A t \in Threads :
        (\E i \in DOMAIN log[t] : StepOf(t, i) \in SemanticSteps /\ log[t][i].result # "ok")
            => err[t] \in {"ConfigValidationError", "ValueError"}

(* C9: a call of validations.validate_config on a config that satisfies    *)
(* the schema and the semantic invariants, and whose upgrade and splitter  *)
(* succeed, returns without raising; a config with only input_features and *)
(* output_features is such a config.                                       *)
FeatureNamesUnique(c) ==
    \A i, j \in DOMAIN c.output_features :
        i # j => c.output_features[i].name # c.output_features[j].name

SatisfiesInvariants(c) ==
    /\ FeatureNamesUnique(c)
    /\ ~(RunwayKeys \subseteq c.trainer.keys)
    /\ \/ TRAINER \notin c.keys
       \/ c.trainer.keys = {}
       \/ AmendedValidMetrics(c)

C9_ValidConfigReturns ==
    \A t \in Threads :
        (/\ entry[t] = VALIDATIONS
         /\ pc[t] = "done"
         /\ Passed(t, "upgrade") /\ Passed(t, "structural") /\ ~Failed(t, "splitter")
         /\ SatisfiesInvariants(updated_config[t]))
            => err[t] = None

(* C10: a call of validations.validate_config on a config with two         *)
(* features of one name, which passes structural and splitter validation   *)
(* and the metrics check, ends by raising.                                 *)
C10_DuplicateNamesRejected ==
    \A t \in Threads :
        (/\ entry[t] = VALIDATIONS
         /\ pc[t] = "done"
         /\ Passed(t, "structural") /\ Passed(t, "splitter") /\ Passed(t, CHECK_METRICS)
         /\ ~FeatureNamesUnique(updated_config[t]))
            => err[t] # None

(* C11: a call of validations.validate_config on a config whose trainer    *)
(* sets both checkpoints_per_epoch and steps_per_checkpoint, and which     *)
(* passes every earlier step, ends by raising.                             *)
C11_RunwayExclusivityRejected ==
    \A t \in Threads :
        (/\ entry[t] = VALIDATIONS
         /\ pc[t] = "done"
         /\ Passed(t, "structural") /\ Passed(t, "splitter") /\ Passed(t, CHECK_METRICS)
         /\ Passed(t, "check_dependent_features")
         /\ RunwayKeys \subseteq updated_config[t].trainer.keys)
            => err[t] # None

(* C16: in either validate_config entry point the splitter runs only after *)
(* structural validation of the same call has passed; a config that fails  *)
(* structural validation never reaches the splitter and the call ends with *)
(* the structural error.                                                   *)
C16_SplitterAfterStructural ==
    \A t \in Threads :
        /\ \A j \in DOMAIN log[t] :
            StepOf(t, j) = "splitter"
                => \E i \in 1..(j - 1) : StepOf(t, i) = "structural" /\ log[t][i].result = "ok"
        /\ Failed(t, "structural") => ~Ran(t, "splitter") /\ err[t] = "ValidationError"

(* C20: the map of get_feature_to_metric_names_map sends the combined      *)
(* objective to exactly the loss metric, also when an output feature has   *)
(* the name of the combined objective; so validation_field = combined      *)
(* passes check_validation_metrics_are_valid with validation_metric = loss *)
(* and is rejected with any other metric.                                  *)
C20_CombinedMapsToLoss ==
    \A t \in Threads :
        Ran(t, CHECK_METRICS) =>
            /\ get_feature_to_metric_names_map(updated_config[t].output_features)[COMBINED]
                   = <<LOSS>>
            /\ (/\ HasValidationKeys(updated_config[t])
                /\ updated_config[t].trainer.validation_field = COMBINED)
                   => (Passed(t, CHECK_METRICS)
                          <=> updated_config[t].trainer.validation_metric = LOSS)

C20_Witness ==
    \E t \in Threads :
        /\ Failed(t, CHECK_METRICS) /\ err[t] = "ValueError"
        /\ \E i \in DOMAIN updated_config[t].output_features :
            /\ updated_config[t].output_features[i].name = COMBINED
            /\ updated_config[t].output_features[i].type = "category"
        /\ updated_config[t].trainer.validation_field = COMBINED
        /\ updated_config[t].trainer.validation_metric = "accuracy"

(* --------------------------- the schema cache --------------------------- *)
Pos(order, k) == CHOOSE i \in DOMAIN order : order[i] = k
Built == {mt \in ModelTypes : schema_builds[mt] > 0}
Evicted == CacheKeys(schema_cache) \ CacheKeys(schema_cache')

(* C14: the schema cache never holds more than 2 entries, and a get_schema *)
(* call with a model type that is not cached, arriving at a full cache,    *)
(* stores its schema and evicts exactly the entry used least recently.     *)
C14_BoundedLeastRecentlyUsed ==
    /\ [](Len(schema_cache) <= MAXSIZE /\ Cardinality(CacheKeys(schema_cache)) = Len(schema_cache))
    /\ [][/\ \A k \in Evicted :
               /\ Len(schema_cache) = MAXSIZE
               /\ \A k2 \in CacheKeys(schema_cache) \ {k} : Pos(recency, k) < Pos(recency, k2)
          /\ \A t \in Threads :
               (/\ pc[t] = "build_schema" /\ pc'[t] # "build_schema"
                /\ model_type[t] \notin CacheKeys(schema_cache)
                /\ Len(schema_cache) = MAXSIZE)
                   => /\ model_type[t] \in CacheKeys(schema_cache')
                      /\ Cardinality(Evicted) = 1]_vars

C14_Witness ==
    /\ calls = 4
    /\ recency = <<MODEL_GBM, MODEL_ECD, "other">>
    /\ \A mt \in ModelTypes : schema_builds[mt] = 1
    /\ CacheKeys(schema_cache) = {MODEL_ECD, "other"}

(* C15 as claimed: over any sequence of validate_config / get_schema       *)
(* calls the schema of a model type is assembled at most once.             *)
C15_BuiltOncePerModelType == \A mt \in ModelTypes : schema_builds[mt] <= 1

(* C15 as amended: get_schema assembles a schema only for a model type     *)
(* that is not in the cache, and a cached one is returned as it is; while  *)
(* no more than 2 distinct model types have been asked for, each schema is *)
(* assembled at most once.                                                 *)
C15_BuiltOnlyWhenNotCached ==
    /\ [](Cardinality(Built) <= MAXSIZE => \A mt \in ModelTypes : schema_builds[mt] <= 1)
    /\ [][/\ \A mt \in ModelTypes :
               schema_builds'[mt] # schema_builds[mt]
                   => mt \notin CacheKeys(schema_cache) /\ mt \in CacheKeys(schema_cache')
          /\ \A t \in Threads :
               (/\ pc[t] = "get_schema" /\ pc'[t] # "get_schema"
                /\ model_type[t] \in CacheKeys(schema_cache))
                   => /\ schema'[t] = CacheValue(schema_cache, model_type[t])
                      /\ schema_builds' = schema_builds]_vars

C15_Witness ==
    \E t \in Threads :
        /\ calls = 2
        /\ pc[t] = "done" /\ entry[t] = GET_SCHEMA
        /\ Built = {model_type[t]}
        /\ schema[t] = <<model_type[t], 1>>
        /\ recency = <<model_type[t]>>

(* C19: under fair scheduling every call of validate_config ends (returns  *)
(* or raises), also when other calls raise inside the locked section. A    *)
(* call leaves "acquire" only by taking its lock, so a call that ends has  *)
(* acquired it: no thread waits for a validation lock forever.             *)
C19_EveryCallEnds ==
    \A t \in Threads : (pc[t] \notin {"idle", "done"}) ~> (pc[t] = "done")

C19_Witness ==
    \E t1, t2 \in Threads :
        /\ t1 # t2
        /\ entry[t1] = entry[t2]
        /\ pc[t1] = "done" /\ err[t1] = "ValidationError"
        /\ pc[t2] = "done" /\ Ran(t2, "structural")

(* ------------------------------ the workers ----------------------------- *)
OnHost(h) == {w \in Workers : host[w] = h}
SameHost(out, h) == {i \in 1..Len(out) : out[i][2] = h}
SameHostBelow(out, h, r) == {i \in SameHost(out, h) : out[i][1] < r}
OnePairPerWorker(out) ==
    /\ Len(out) = WorldSize
    /\ \A w \in Workers : \E i \in 1..Len(out) : out[i] = <<w, host[w]>>

(* C12: a worker of rank r on host h, over a gathered list with one (rank, *)
(* host) pair per worker, gets local_size = the number of pairs of host h  *)
(* and local_rank = the number of pairs of host h with a rank below r;     *)
(* with H1 = ranks {0,2,4} and H2 = ranks {1,3} the H1 workers get size 3  *)
(* and local ranks 0,1,2, the H2 workers size 2 and local ranks 0,1.       *)
C12_CountsOwnHost ==
    \A w \in Workers :
        HasStrategy(w) =>
            /\ OnePairPerWorker(output[w])
            /\ _local_size[w] = Cardinality(SameHost(output[w], host[w]))
            /\ _local_rank[w] = Cardinality(SameHostBelow(output[w], host[w], w))
            /\ (OnHost("H1") = {0, 2, 4} /\ OnHost("H2") = {1, 3}) =>
                   /\ _local_size[w] = (IF w \in {0, 2, 4} THEN 3 ELSE 2)
                   /\ _local_rank[w] = w \div 2

C12_Witness ==
    /\ OnHost("H1") = {0, 2, 4} /\ OnHost("H2") = {1, 3}
    /\ \A w \in Workers : HasStrategy(w)
    /\ _local_size[0] = 3 /\ _local_rank[4] = 2
    /\ _local_size[1] = 2 /\ _local_rank[3] = 1

(* C13: with distinct global ranks and the same gathered list seen by      *)
(* every worker, on any assignment of workers to hosts the workers of one  *)
(* host get the same local_size, their local ranks are distinct, follow    *)
(* the order of the global ranks and are together exactly                  *)
(* 0..local_size-1.                                                        *)
C13_DenseLocalRanks ==
    (\A w, v \in DOMAIN _local_rank : output[w] = output[v]) =>
        \A h \in Hosts :
            LET ws == OnHost(h) \cap DOMAIN _local_rank
            IN  /\ \A w, v \in ws :
                    /\ _local_size[w] = _local_size[v]
                    /\ w < v => _local_rank[w] < _local_rank[v]
                    /\ w # v => _local_rank[w] # _local_rank[v]
                /\ \A w \in ws : _local_rank[w] \in 0..(_local_size[w] - 1)
                /\ (ws = OnHost(h) /\ ws # {}) =>
                       \A w \in ws : {_local_rank[v] : v \in ws} = 0..(_local_size[w] - 1)

C13_Witness ==
    /\ \A w \in Workers : HasStrategy(w)
    /\ \E w, u, v \in Workers :
        /\ w < u /\ u < v
        /\ host[w] = host[v] /\ host[u] # host[w]
        /\ _local_rank[v] = _local_rank[w] + 1
        /\ _local_rank[u] = 0

(* The workers that have not made the barrier call worker w is in. *)
NotArrived(w) == {v \in Workers : barrier_calls[v] < barrier_calls[w]}

(* C17: no worker returns from barrier() before every worker of the group  *)
(* has called it; while a worker that has not called it has failed, a      *)
(* worker inside the barrier stays inside, and the failed worker stays     *)
(* failed, so the wait never ends.                                         *)
C17_BarrierWaitsForAll ==
    [][\A w \in Workers :
           wpc[w] = "barrier" =>
               /\ wpc'[w] # "barrier" => NotArrived(w) = {}
               /\ \A v \in NotArrived(w) :
                      wpc[v] = "failed" =>
                          /\ wpc'[w] = "barrier"
                          /\ barrier_calls'[w] = barrier_calls[w]
                          /\ wpc'[v] = "failed"
                          /\ barrier_calls'[v] = barrier_calls[v]]_vars

C17_Witness ==
    \E w, v \in Workers :
        /\ wpc[w] = "barrier" /\ barrier_calls[w] = 2
        /\ wpc[v] = "failed" /\ barrier_calls[v] = 1
        /\ \E u \in Workers : wpc[u] = "ready" /\ barrier_calls[u] = 1

(* The workers that can make a call: they have a strategy and are not      *)
(* inside a collective.                                                    *)
CanCall(w) == HasStrategy(w) /\ wpc[w] \in {"ready", "failed"}

(* C18: shutdown() can be called by a worker again and again, whatever     *)
(* the other workers are doing (failed, or blocked in a collective); the   *)
(* call returns to where the worker was (it neither blocks nor raises)     *)
(* and leaves the process group, _local_rank and _local_size as they were. *)
C18_ShutdownChangesNothing ==
    /\ [](\A w \in Workers :
             (CanCall(w) /\ shutdown_calls < MaxShutdowns) => ENABLED Shutdown(w))
    /\ [][shutdown_calls' # shutdown_calls =>
             /\ process_group' = process_group
             /\ process_group = "initialized"
             /\ _local_rank' = _local_rank
             /\ _local_size' = _local_size
             /\ wpc' = wpc
             /\ barrier_calls' = barrier_calls]_vars

C18_Witness ==
    /\ shutdown_calls = MaxShutdowns
    /\ process_group = "initialized"
    /\ \E w, v, u \in Workers :
        /\ wpc[w] = "failed"
        /\ wpc[v] = "barrier" /\ w \in NotArrived(v)
        /\ wpc[u] = "ready" /\ _local_rank[u] > 0

====
